---- MODULE Spec2Model ----
(***************************************************************************)
(* A model of scripts/batch_cache.py (the batch cache scanner: discovery,  *)
(* per-file analyzer invocation, outcome classification, statistics,       *)
(* conditional commit, exit status) and of scripts/repo_manager.py (the    *)
(* repository store operations of RepoManager).                            *)
(*                                                                         *)
(* Python strings are TLA+ strings; a Python Optional is a sequence of     *)
(* length at most one (<<>> is None, <<v>> is the value v).                *)
(***************************************************************************)
EXTENDS Integers, Sequences, FiniteSets, TLC

VARIABLES
    \* ---- batch_cache.main -------------------------------------------
    pc,          \* position in main()
    args,        \* parsed command line: [limit, commit]
    fs,          \* entries (path strings) below repo_path
    env,         \* what main() has observed of its environment so far
    found,       \* find_rust_files(...) before the limit is applied
    rust_files,  \* the list main() dispatches
    total,       \* len(rust_files)
    idx,         \* number of loop iterations completed
    stats,       \* {"success", "cached", "failed", "errors"}
    history,     \* per completed iteration: what the subprocess did, and
                 \* analyze_file's return value
    calls,       \* every subprocess started so far, in order
    report,      \* what the summary printed: <<>> before the summary
    exit_code,   \* <<>> while running, <<status>> once the process ended
    \* ---- find_rust_files alone --------------------------------------
    sel_walk, sel_patterns, sel_out,
    \* ---- analyze_file alone -----------------------------------------
    cls_in, cls_out,
    \* ---- repo_manager.RepoManager -----------------------------------
    repositories,  \* the rows of table repositories
    now,           \* the clock: int(datetime.now().timestamp())
    uuids,         \* number of uuid4() values handed out
    op,            \* the last operation called, with its arguments
    ret,           \* its return value: <<>> before the first call
    ops,           \* number of operations called so far
    \* ---- two RepoManager connections on one database ----------------
    conns,         \* per connection: where its add_repo call stands
    \* ---- the eligibility scheduler ----------------------------------
    sched,         \* the scheduler's last evaluation and dispatch
    \* ---- the child processes of the dispatch loop -------------------
    children       \* per analyzer invocation started: the child's state

scanVars == <<pc, args, fs, env, found, rust_files, total, idx, stats,
              history, calls, report, exit_code>>
selVars  == <<sel_walk, sel_patterns, sel_out>>
clsVars  == <<cls_in, cls_out>>
storeVars == <<repositories, now, uuids, op, ret, ops>>
otherVars == <<conns, sched, children>>
vars     == <<scanVars, selVars, clsVars, storeVars, otherVars>>

-----------------------------------------------------------------------------
(* Bounds of the model.                                                    *)

\* most entries below the repository root in a scan run
MaxFiles == 3
\* largest --limit value tried
MaxLimit == 2
\* most entries in a tree handed to find_rust_files alone
MaxSelFiles == 3
\* most exclude patterns handed to find_rust_files alone
MaxPatterns == 2
\* most tokens in an analyzer's captured stdout
MaxOutTokens == 2
\* most tokens in an analyzer's captured stderr
MaxErrTokens == 1
\* most store operations in one behaviour
MaxOps == 2
\* latest clock value
MaxClock == 1
\* most entries of a directory handed to bulk_add_from_directory
MaxListing == 2
\* number of entries of priority_repos that setup_priority_repos goes through
MaxPriority == 2
\* most clock advances in one behaviour of the scheduler
MaxTicks == 4
\* most files in a run whose report is looked at
MaxReportFiles == 11

-----------------------------------------------------------------------------
(* Strings.                                                                *)

Min(a, b) == IF a <= b THEN a ELSE b
Max(a, b) == IF a >= b THEN a ELSE b

\* Python: pat in s
Contains(s, pat) ==
    \E i \in 1..(Len(s) - Len(pat) + 1) : SubSeq(s, i, i + Len(pat) - 1) = pat

\* Python: s.endswith(suffix)
EndsWith(s, suffix) ==
    /\ Len(suffix) <= Len(s)
    /\ SubSeq(s, Len(s) - Len(suffix) + 1, Len(s)) = suffix

\* Python: s.startswith(prefix)
StartsWith(s, prefix) ==
    /\ Len(prefix) <= Len(s)
    /\ SubSeq(s, 1, Len(prefix)) = prefix

\* index of the first occurrence of the character c in s, 0 if none
IndexOf(s, c) ==
    LET hits == {i \in 1..Len(s) : SubSeq(s, i, i) = c}
    IN  IF hits = {} THEN 0 ELSE CHOOSE i \in hits : \A j \in hits : i <= j

\* Python: s.split(sep) for a one-character sep
RECURSIVE Split(_, _)
Split(s, sep) ==
    LET i == IndexOf(s, sep)
    IN  IF i = 0 THEN <<s>>
        ELSE <<SubSeq(s, 1, i - 1)>> \o Split(SubSeq(s, i + 1, Len(s)), sep)

\* the characters the model's strings are made of, in code point order
Ascii == "\n -./0123456789:ABCDEFGHIJKLMNOPQRSTUVWXYZ_abcdefghijklmnopqrstuvwxyz"

Code(c) == CHOOSE i \in 1..Len(Ascii) : SubSeq(Ascii, i, i) = c

\* Python: a < b on str (code point order)
StrLess(a, b) ==
    \E i \in 1..(Len(a) + 1) :
        /\ i <= Len(b)
        /\ SubSeq(a, 1, i - 1) = SubSeq(b, 1, i - 1)
        /\ \/ i = Len(a) + 1
           \/ Code(SubSeq(a, i, i)) < Code(SubSeq(b, i, i))

\* Python: p < q on lists of str
PartsLess(p, q) ==
    \E i \in 1..(Len(p) + 1) :
        /\ i <= Len(q)
        /\ \A j \in 1..(i - 1) : p[j] = q[j]
        /\ \/ i = Len(p) + 1
           \/ StrLess(p[i], q[i])

\* pathlib: PurePath.__lt__ compares the paths component by component
PathLess(p, q) == PartsLess(Split(p, "/"), Split(q, "/"))

\* pathlib: the final path component
Name(p) == LET parts == Split(p, "/") IN parts[Len(parts)]

\* Python: seq[:n]
Slice(seq, n) ==
    IF n >= 0 THEN SubSeq(seq, 1, Min(n, Len(seq)))
    ELSE SubSeq(seq, 1, Max(Len(seq) + n, 0))

\* all orders in which the elements of the finite set S can be listed
Orders(S) ==
    {f \in [1..Cardinality(S) -> S] : \A i, j \in 1..Cardinality(S) : f[i] = f[j] => i = j}

-----------------------------------------------------------------------------
(* File Selector: find_rust_files.                                         *)

\* Path.rglob("*.rs") over a tree whose entries the file system lists in the
\* order walk: the entries whose name matches *.rs, in that order
rglob(walk) == SelectSeq(walk, LAMBDA p : EndsWith(Name(p), ".rs"))

default_exclude_patterns == <<"/target/", "/.git/", "/examples/", "/benches/">>

\* the place of x in the sorted list s: after the entries that are not greater
InsertSorted(x, s) ==
    LET k == Cardinality({i \in 1..Len(s) : ~PathLess(x, s[i])})
    IN  SubSeq(s, 1, k) \o <<x>> \o SubSeq(s, k + 1, Len(s))

\* Python: sorted(seq) on Path objects
RECURSIVE sorted(_)
sorted(seq) ==
    IF seq = <<>> THEN <<>>
    ELSE InsertSorted(seq[Len(seq)], sorted(SubSeq(seq, 1, Len(seq) - 1)))

\* any(pattern in str(rust_file) for pattern in exclude_patterns)
Excluded(rust_file, exclude_patterns) ==
    \E k \in 1..Len(exclude_patterns) : Contains(rust_file, exclude_patterns[k])

\* find_rust_files without its final sort: a faulty variant
find_rust_files_unsorted(walk, exclude_patterns) ==
    LET pats == IF exclude_patterns = <<>> THEN default_exclude_patterns
                ELSE exclude_patterns[1]
    IN  SelectSeq(rglob(walk), LAMBDA f : ~Excluded(f, pats))

\* exclude_patterns is Optional: <<>> is None, <<list>> a list
find_rust_files(walk, exclude_patterns) ==
    LET pats == IF exclude_patterns = <<>> THEN default_exclude_patterns
                ELSE exclude_patterns[1]
    IN  sorted(SelectSeq(rglob(walk), LAMBDA f : ~Excluded(f, pats)))

-----------------------------------------------------------------------------
(* Analysis Invoker: analyze_file.                                         *)

\* What subprocess.run did: it returned a CompletedProcess ("exited"), raised
\* TimeoutExpired after killing the child ("timeout"), or raised another
\* exception whose text is exc ("error").
Proc(kind, returncode, stdout, stderr, exc) ==
    [kind |-> kind, returncode |-> returncode, stdout |-> stdout,
     stderr |-> stderr, exc |-> exc]

\* analyze_file with the two marker tests in the other order: a faulty variant
analyze_file_markers_swapped(r) ==
    IF r.kind = "timeout" THEN <<FALSE, FALSE, "timeout">>
    ELSE IF r.kind = "error" THEN <<FALSE, FALSE, r.exc>>
    ELSE LET output == r.stdout \o r.stderr
         IN  IF r.returncode # 0
             THEN <<FALSE, FALSE,
                    IF output # "" THEN Split(output, "\n")[1] ELSE "Unknown error">>
             ELSE IF Contains(output, "Analysis cached") THEN <<TRUE, FALSE, "new">>
             ELSE IF Contains(output, "Using cached") THEN <<TRUE, TRUE, "cached">>
             ELSE <<TRUE, FALSE, "analyzed">>

\* analyze_file with the marker looked for before the exit status is
\* acted on, so that a failure keeps the cached flag: a faulty variant
analyze_file_failure_keeps_cached(r) ==
    IF r.kind = "timeout" THEN <<FALSE, FALSE, "timeout">>
    ELSE IF r.kind = "error" THEN <<FALSE, FALSE, r.exc>>
    ELSE LET output == r.stdout \o r.stderr
             cached == Contains(output, "Using cached")
         IN  IF r.returncode # 0
             THEN <<FALSE, cached,
                    IF output # "" THEN Split(output, "\n")[1] ELSE "Unknown error">>
             ELSE IF cached THEN <<TRUE, TRUE, "cached">>
             ELSE IF Contains(output, "Analysis cached") THEN <<TRUE, FALSE, "new">>
             ELSE <<TRUE, FALSE, "analyzed">>

\* returns (success, cached, message)
analyze_file(r) ==
    IF r.kind = "timeout" THEN <<FALSE, FALSE, "timeout">>
    ELSE IF r.kind = "error" THEN <<FALSE, FALSE, r.exc>>
    ELSE LET output == r.stdout \o r.stderr
         IN  IF r.returncode # 0
             THEN <<FALSE, FALSE,
                    IF output # "" THEN Split(output, "\n")[1] ELSE "Unknown error">>
             ELSE IF Contains(output, "Using cached") THEN <<TRUE, TRUE, "cached">>
             ELSE IF Contains(output, "Analysis cached") THEN <<TRUE, FALSE, "new">>
             ELSE <<TRUE, FALSE, "analyzed">>

-----------------------------------------------------------------------------
(* Run Aggregator: the statistics main() keeps.                            *)

new_stats == [success |-> 0, cached |-> 0, failed |-> 0, errors |-> <<>>]

\* the loop body's bookkeeping, with a failure counted but not listed: a faulty variant
Accumulate_unlisted(st, file_path, res) ==
    IF res[1]
    THEN IF res[2] THEN [st EXCEPT !.cached = @ + 1]
         ELSE [st EXCEPT !.success = @ + 1]
    ELSE [st EXCEPT !.failed = @ + 1]

\* the loop body's bookkeeping for one (success, cached, message)
Accumulate(st, file_path, res) ==
    IF res[1]
    THEN IF res[2] THEN [st EXCEPT !.cached = @ + 1]
         ELSE [st EXCEPT !.success = @ + 1]
    ELSE [st EXCEPT !.failed = @ + 1,
                    !.errors = Append(@, <<file_path, res[3]>>)]

-----------------------------------------------------------------------------
(* Scan Orchestrator: main().                                              *)

\* args.repo_path.resolve()
repo_path == "/w"

\* the entries a scanned tree is drawn from
RepoEntries ==
    {"/w/lib.rs", "/w/a/m.rs", "/w/a-b.rs", "/w/target/x.rs", "/w/tests/t.rs",
     "/w/README.md"}

\* --exclude-tests is store_true with default=True: it is always set
exclude_tests == TRUE

main_exclude_patterns ==
    <<"/target/", "/.git/">>
        \o (IF exclude_tests THEN <<"/tests/", "/benches/", "/examples/">> ELSE <<>>)

\* stats["errors"][:10]
ERRORS_SHOWN == 10

\* Python: bool(args.limit), for an Optional[int]
Truthy(opt) == opt # <<>> /\ opt[1] # 0

\* file_path.relative_to(repo_path), for a path below repo_path
RelativeTo(file_path, root) == SubSeq(file_path, Len(root) + 2, Len(file_path))

\* what the analyzer subprocess of one loop iteration may do
DispatchResults ==
    { Proc("exited", 0, "Using cached analysis\n", "", ""),
      Proc("exited", 0, "Analysis cached\n", "", ""),
      Proc("exited", 0, "ok\n", "", ""),
      Proc("exited", 1, "", "error: boom\ndetail\n", ""),
      Proc("exited", 1, "", "", ""),
      Proc("timeout", 0, "", "", ""),
      Proc("error", 0, "", "", "Permission denied") }

Call(cmd, arg) == [cmd |-> cmd, arg |-> arg]

new_env ==
    [repo |-> <<>>, binary |-> <<>>, dotenv |-> <<>>, cache_dir |-> <<>>,
     cache_init |-> <<>>, git_dir |-> <<>>, git_diff |-> <<>>,
     git_commit |-> <<>>, commit_msg |-> <<>>]

ScanInit ==
    /\ pc = "init"
    /\ args \in [limit : {<<>>} \cup {<<n>> : n \in (0 - 1)..MaxLimit},
                 commit : BOOLEAN]
    /\ fs \in {S \in SUBSET RepoEntries : Cardinality(S) <= MaxFiles}
    /\ env = new_env
    /\ found = <<>>
    /\ rust_files = <<>>
    /\ total = 0
    /\ idx = 0
    /\ stats = new_stats
    /\ history = <<>>
    /\ calls = <<>>
    /\ report = <<>>
    /\ exit_code = <<>>

StoreIdle ==
    /\ repositories = {}
    /\ now = 0
    /\ uuids = 0
    /\ op = [name |-> "none"]
    /\ ret = <<>>
    /\ ops = 0

\* no add_repo call in progress on either connection
ConnsIdle == conns = <<>>
\* no scheduler
SchedIdle == sched = [phase |-> "idle"]
\* no child process
ChildrenIdle == children = <<>>
OtherIdle == ConnsIdle /\ SchedIdle /\ ChildrenIdle

SelIdle == sel_walk = <<>> /\ sel_patterns = <<>> /\ sel_out = <<>>
ClsIdle == cls_in = Proc("timeout", 0, "", "", "") /\ cls_out = <<>>

\* lines 167-170: the repository root must exist
CheckRepo ==
    /\ pc = "init"
    /\ \E exists \in BOOLEAN :
        /\ env' = [env EXCEPT !.repo = <<exists>>]
        /\ IF exists
           THEN pc' = "binary" /\ exit_code' = exit_code
           ELSE pc' = "done" /\ exit_code' = <<1>>
    /\ UNCHANGED <<args, fs, found, rust_files, total, idx, stats, history,
                   calls, report>>
    /\ UNCHANGED <<selVars, clsVars, storeVars, otherVars>>

\* line 173, get_rustassistant_path: the analyzer binary must exist
GetRustassistantPath ==
    /\ pc = "binary"
    /\ \E exists \in BOOLEAN :
        /\ env' = [env EXCEPT !.binary = <<exists>>]
        /\ IF exists
           THEN pc' = "dotenv" /\ exit_code' = exit_code
           ELSE pc' = "done" /\ exit_code' = <<1>>
    /\ UNCHANGED <<args, fs, found, rust_files, total, idx, stats, history,
                   calls, report>>
    /\ UNCHANGED <<selVars, clsVars, storeVars, otherVars>>

\* line 175, load_env: the .env file must exist
LoadEnv ==
    /\ pc = "dotenv"
    /\ \E exists \in BOOLEAN :
        /\ env' = [env EXCEPT !.dotenv = <<exists>>]
        /\ IF exists
           THEN pc' = "cache_check" /\ exit_code' = exit_code
           ELSE pc' = "done" /\ exit_code' = <<1>>
    /\ UNCHANGED <<args, fs, found, rust_files, total, idx, stats, history,
                   calls, report>>
    /\ UNCHANGED <<selVars, clsVars, storeVars, otherVars>>

\* the cache initialised on every run, whether the directory is there or
\* not: a faulty variant
CacheCheck_always_init ==
    /\ pc = "cache_check"
    /\ \E exists \in BOOLEAN, rc \in {0, 1} :
        /\ env' = [env EXCEPT !.cache_dir = <<exists>>, !.cache_init = <<rc>>]
        /\ calls' = Append(calls, Call("cache init", repo_path))
    /\ pc' = "discover"
    /\ UNCHANGED <<args, fs, found, rust_files, total, idx, stats, history,
                   report, exit_code>>
    /\ UNCHANGED <<selVars, clsVars, storeVars, otherVars>>

\* lines 183-190: run `cache init` when .rustassistant is absent; its exit
\* status is not looked at
CacheCheck ==
    /\ pc = "cache_check"
    /\ \E exists \in BOOLEAN, rc \in {0, 1} :
        IF exists
        THEN /\ env' = [env EXCEPT !.cache_dir = <<TRUE>>]
             /\ calls' = calls
        ELSE /\ env' = [env EXCEPT !.cache_dir = <<FALSE>>, !.cache_init = <<rc>>]
             /\ calls' = Append(calls, Call("cache init", repo_path))
    /\ pc' = "discover"
    /\ UNCHANGED <<args, fs, found, rust_files, total, idx, stats, history,
                   report, exit_code>>
    /\ UNCHANGED <<selVars, clsVars, storeVars, otherVars>>

\* main() without the return of lines 207-209: a faulty variant
Discover_no_early_return ==
    /\ pc = "discover"
    /\ \E walk \in Orders(fs) :
        LET all == find_rust_files(walk, <<main_exclude_patterns>>)
            lst == IF Truthy(args.limit) THEN Slice(all, args.limit[1]) ELSE all
        IN  /\ found' = all
            /\ rust_files' = lst
            /\ total' = Len(lst)
            /\ pc' = IF Len(lst) = 0 THEN "report" ELSE "dispatch"
    /\ stats' = new_stats
    /\ UNCHANGED <<args, fs, env, idx, history, calls, report, exit_code>>
    /\ UNCHANGED <<selVars, clsVars, storeVars, otherVars>>

\* lines 192-215: find the files, apply --limit, return when there is nothing
\* to do
Discover ==
    /\ pc = "discover"
    /\ \E walk \in Orders(fs) :
        LET all == find_rust_files(walk, <<main_exclude_patterns>>)
            lst == IF Truthy(args.limit) THEN Slice(all, args.limit[1]) ELSE all
        IN  /\ found' = all
            /\ rust_files' = lst
            /\ total' = Len(lst)
            /\ IF Len(lst) = 0
               THEN pc' = "done" /\ exit_code' = <<0>>
               ELSE pc' = "dispatch" /\ exit_code' = exit_code
    /\ stats' = new_stats
    /\ UNCHANGED <<args, fs, env, idx, history, calls, report>>
    /\ UNCHANGED <<selVars, clsVars, storeVars, otherVars>>

\* the loop with no except clause for TimeoutExpired, which then ends the
\* process with a traceback: a faulty variant
Dispatch_timeout_propagates ==
    /\ pc = "dispatch"
    /\ idx < total
    /\ \E r \in DispatchResults :
        LET file_path == rust_files[idx + 1]
            res == analyze_file(r)
        IN  /\ calls' = Append(calls, Call("analyze", RelativeTo(file_path, repo_path)))
            /\ IF r.kind = "timeout"
               THEN /\ pc' = "done"
                    /\ exit_code' = <<1>>
                    /\ UNCHANGED <<history, stats, idx>>
               ELSE /\ history' = Append(history, [kind |-> r.kind, res |-> res])
                    /\ stats' = Accumulate(stats, file_path, res)
                    /\ idx' = idx + 1
                    /\ pc' = IF idx + 1 = total THEN "report" ELSE "dispatch"
                    /\ exit_code' = exit_code
    /\ UNCHANGED <<args, fs, env, found, rust_files, total, report>>
    /\ UNCHANGED <<selVars, clsVars, storeVars, otherVars>>

\* the loop left after its first failure: a faulty variant
Dispatch_stops_at_failure ==
    /\ pc = "dispatch"
    /\ idx < total
    /\ \E r \in DispatchResults :
        LET file_path == rust_files[idx + 1]
            res == analyze_file(r)
        IN  /\ calls' = Append(calls, Call("analyze", RelativeTo(file_path, repo_path)))
            /\ history' = Append(history, [kind |-> r.kind, res |-> res])
            /\ stats' = Accumulate(stats, file_path, res)
            /\ pc' = IF idx + 1 = total \/ ~res[1] THEN "report" ELSE "dispatch"
    /\ idx' = idx + 1
    /\ UNCHANGED <<args, fs, env, found, rust_files, total, report, exit_code>>
    /\ UNCHANGED <<selVars, clsVars, storeVars, otherVars>>

\* lines 217-233: one iteration of the loop over rust_files
Dispatch ==
    /\ pc = "dispatch"
    /\ idx < total
    /\ \E r \in DispatchResults :
        LET file_path == rust_files[idx + 1]
            res == analyze_file(r)
        IN  /\ calls' = Append(calls, Call("analyze", RelativeTo(file_path, repo_path)))
            /\ history' = Append(history, [kind |-> r.kind, res |-> res])
            /\ stats' = Accumulate(stats, file_path, res)
    /\ idx' = idx + 1
    /\ pc' = IF idx + 1 = total THEN "report" ELSE "dispatch"
    /\ UNCHANGED <<args, fs, env, found, rust_files, total, report, exit_code>>
    /\ UNCHANGED <<selVars, clsVars, storeVars, otherVars>>

\* the summary without lines 259-260: a faulty variant
Report_without_note ==
    /\ pc = "report"
    /\ calls' = Append(calls, Call("cache status", repo_path))
    /\ report' = << [total |-> total, success |-> stats.success,
                     cached |-> stats.cached, failed |-> stats.failed,
                     shown |-> Slice(stats.errors, ERRORS_SHOWN),
                     more |-> <<>>] >>
    /\ pc' = "commit"
    /\ UNCHANGED <<args, fs, env, found, rust_files, total, idx, stats, history,
                   exit_code>>
    /\ UNCHANGED <<selVars, clsVars, storeVars, otherVars>>

\* lines 235-261: `cache status`, the statistics, the first errors
Report ==
    /\ pc = "report"
    /\ calls' = Append(calls, Call("cache status", repo_path))
    /\ report' = << [total |-> total, success |-> stats.success,
                     cached |-> stats.cached, failed |-> stats.failed,
                     shown |-> Slice(stats.errors, ERRORS_SHOWN),
                     more |-> IF Len(stats.errors) > ERRORS_SHOWN
                              THEN <<Len(stats.errors) - ERRORS_SHOWN>>
                              ELSE <<>>] >>
    /\ pc' = "commit"
    /\ UNCHANGED <<args, fs, env, found, rust_files, total, idx, stats, history,
                   exit_code>>
    /\ UNCHANGED <<selVars, clsVars, storeVars, otherVars>>

\* the commit step entered whenever --commit is given: a faulty variant
CommitWanted_any == args.commit

\* line 264
CommitWanted == args.commit /\ stats.success > 0

\* the test of line 275 left out: a faulty variant
DiffSaysStaged_always(rc) == TRUE

\* line 275: git diff --staged --quiet exits non-zero when something is staged
DiffSaysStaged(rc) == rc # 0

\* lines 263-288: git rev-parse, git add, git diff --staged, git commit
Commit ==
    /\ pc = "commit"
    /\ IF CommitWanted
       THEN \E git_dir \in {0, 128}, git_diff \in {0, 1}, git_commit \in {0, 1} :
              IF git_dir = 0
              THEN IF DiffSaysStaged(git_diff)
                   THEN /\ calls' = calls \o
                                <<Call("git rev-parse", "--git-dir"),
                                  Call("git add", ".rustassistant/"),
                                  Call("git diff", "--staged"),
                                  Call("git commit", "-m")>>
                        /\ env' = [env EXCEPT
                                !.git_dir = <<git_dir>>, !.git_diff = <<git_diff>>,
                                !.git_commit = <<git_commit>>,
                                !.commit_msg = << [total |-> total,
                                                   success |-> stats.success,
                                                   failed |-> stats.failed] >>]
                   ELSE /\ calls' = calls \o
                                <<Call("git rev-parse", "--git-dir"),
                                  Call("git add", ".rustassistant/"),
                                  Call("git diff", "--staged")>>
                        /\ env' = [env EXCEPT
                                !.git_dir = <<git_dir>>, !.git_diff = <<git_diff>>]
              ELSE /\ calls' = Append(calls, Call("git rev-parse", "--git-dir"))
                   /\ env' = [env EXCEPT !.git_dir = <<git_dir>>]
       ELSE UNCHANGED <<calls, env>>
    /\ pc' = "exit"
    /\ UNCHANGED <<args, fs, found, rust_files, total, idx, stats, history,
                   report, exit_code>>
    /\ UNCHANGED <<selVars, clsVars, storeVars, otherVars>>

\* the exit status taken from the new-analysis count: a faulty variant
ExitStatus_from_success(st) == IF st.success > 0 THEN 0 ELSE 1

\* lines 290-295
ExitStatus(st) == IF st.failed > 0 THEN 1 ELSE 0

Exit ==
    /\ pc = "exit"
    /\ exit_code' = <<ExitStatus(stats)>>
    /\ pc' = "done"
    /\ UNCHANGED <<args, fs, env, found, rust_files, total, idx, stats, history,
                   calls, report>>
    /\ UNCHANGED <<selVars, clsVars, storeVars, otherVars>>

Init == ScanInit /\ SelIdle /\ ClsIdle /\ StoreIdle /\ OtherIdle

Next ==
    \/ CheckRepo
    \/ GetRustassistantPath
    \/ LoadEnv
    \/ CacheCheck
    \/ Discover
    \/ Dispatch
    \/ Report
    \/ Commit
    \/ Exit

Spec == Init /\ [][Next]_vars

\* every analyzer invocation ends, by itself or by its 120 s timeout, so the
\* loop always takes its next iteration
FairSpec == Init /\ [][Next]_vars /\ WF_vars(Dispatch)

-----------------------------------------------------------------------------
(* Properties of a scan run.                                               *)

CallsOf(cmds) == SelectSeq(calls, LAMBDA c : c.cmd \in cmds)

GitCommands == {"git rev-parse", "git add", "git diff", "git commit"}

\* main() has passed its three existence checks
PreconditionsMet ==
    env.repo = <<TRUE>> /\ env.binary = <<TRUE>> /\ env.dotenv = <<TRUE>>

\* main() has computed rust_files
Discovered == env.cache_dir # <<>> /\ pc # "discover"

\* the loop has ended
LoopDone == pc \in {"report", "commit", "exit"} \/ (pc = "done" /\ total > 0)

\* the failures among the first n iterations, as (path, reason), in order
RECURSIVE FailuresOf(_)
FailuresOf(n) ==
    IF n = 0 THEN <<>>
    ELSE IF history[n].res[1] THEN FailuresOf(n - 1)
         ELSE Append(FailuresOf(n - 1), <<rust_files[n], history[n].res[3]>>)

\* C1: the three counters add up to the number of outcomes accumulated so
\* far, at every point of the loop and after it, and the failure list is as
\* long as the failure count.
C1_CountersPartitionOutcomes ==
    /\ Len(history) = idx
    /\ stats.success + stats.cached + stats.failed = idx
    /\ Len(stats.errors) = stats.failed

C1_Witness ==
    /\ pc = "report"
    /\ stats.success > 0 /\ stats.cached > 0 /\ stats.failed > 0

\* C2 as claimed: every run that ends exits non-zero exactly when its failure
\* count is positive.
C2_ExitNonZeroIffFailed ==
    exit_code # <<>> => (exit_code[1] # 0 <=> stats.failed > 0)

\* C2 as amended: a run that passed the existence checks and ended by the
\* zero-files return or the final exit statement exits non-zero exactly when
\* its failure count is positive, whatever the commit step did; a run stopped
\* by an existence check exits 1 with no failure counted.
C2_ExitNonZeroIffFailedOncePreconditionsMet ==
    exit_code # <<>> =>
        IF PreconditionsMet
        THEN exit_code[1] # 0 <=> stats.failed > 0
        ELSE exit_code = <<1>> /\ stats.failed = 0

C2_Witness ==
    /\ exit_code = <<0>>
    /\ env.git_commit = <<1>>
    /\ stats.failed = 0

\* the analyzer has been run on the first idx files, once each and in list
\* order, and the failure list holds their failures in that order
C3_DispatchedInOrder ==
    /\ idx <= Len(rust_files)
    /\ CallsOf({"analyze"}) =
           [i \in 1..idx |-> Call("analyze", RelativeTo(rust_files[i], repo_path))]
    /\ stats.errors = FailuresOf(idx)
    /\ \A i \in 1..idx :
           history[i].kind = "timeout" => history[i].res = <<FALSE, FALSE, "timeout">>
    /\ LoopDone => idx = Len(rust_files)

\* C3: a timeout, a non-zero analyzer exit or an invocation error never ends
\* the run: the files are dispatched once each in list order, every failure
\* is listed as (path, reason) in dispatch order, a timed-out file with the
\* reason "timeout", and the loop always gets to the report.
C3_FailuresNeverAbort ==
    /\ []C3_DispatchedInOrder
    /\ (pc = "dispatch") ~> (pc = "report")

C3_Witness ==
    /\ pc = "report"
    /\ idx = 3
    /\ history[1].kind = "timeout"
    /\ history[2].kind = "exited" /\ ~history[2].res[1]
    /\ history[3].kind = "error"

\* C4: no git command is run unless --commit was given and the run made at
\* least one new analysis.
C4_CommitStepNeedsNewAnalyses ==
    CallsOf(GitCommands) # <<>> => (args.commit /\ stats.success > 0)

C4_Witness ==
    /\ pc = "done"
    /\ args.commit
    /\ stats.success = 0 /\ stats.cached > 0 /\ stats.failed > 0
    /\ CallsOf(GitCommands) = <<>>

\* C5: git commit runs only after git add .rustassistant/ and only when git
\* diff --staged reported staged changes; outside a git repository neither
\* git add nor git commit runs and the exit status is the one the failure
\* count alone gives.
C5_CommitOnlyWhenStaged ==
    /\ \A i \in 1..Len(calls) :
           calls[i].cmd = "git commit" =>
               /\ \E j \in 1..(i - 1) : calls[j] = Call("git add", ".rustassistant/")
               /\ env.git_diff = <<1>>
    /\ (env.git_dir # <<>> /\ env.git_dir # <<0>>) =>
           /\ CallsOf({"git add", "git commit"}) = <<>>
           /\ exit_code # <<>> => exit_code = <<IF stats.failed > 0 THEN 1 ELSE 0>>

C5_Witness ==
    /\ pc = "done"
    /\ env.git_diff = <<0>>
    /\ CallsOf({"git add"}) # <<>>
    /\ CallsOf({"git commit"}) = <<>>

\* C7 as claimed: with a limit N >= 0 the dispatched list is the first
\* min(N, |F|) entries of the unlimited selection.
C7_LimitYieldsPrefix ==
    (Discovered /\ args.limit # <<>> /\ args.limit[1] >= 0) =>
        rust_files = SubSeq(found, 1, Min(args.limit[1], Len(found)))

\* a precondition of the run is not met
PreconditionFailed ==
    \/ env.repo = <<FALSE>>
    \/ env.binary = <<FALSE>>
    \/ env.dotenv = <<FALSE>>
    \/ (env.cache_dir = <<FALSE>> /\ env.cache_init # <<0>>)

\* C9 as claimed: a missing repository root, binary or .env file, or a cache
\* namespace that is absent and whose initialization fails, ends the run
\* with a non-zero status before any file is analyzed.
C9_PreconditionFailureIsFatal ==
    PreconditionFailed =>
        /\ CallsOf({"analyze"}) = <<>>
        /\ pc \in {"discover", "done"}
        /\ exit_code # <<>> => exit_code[1] # 0

-----------------------------------------------------------------------------
(* analyze_file on its own: every subprocess result, classified once.      *)

ScanIdle ==
    /\ pc = "idle"
    /\ args = [limit |-> <<>>, commit |-> FALSE]
    /\ fs = {}
    /\ env = new_env
    /\ found = <<>>
    /\ rust_files = <<>>
    /\ total = 0
    /\ idx = 0
    /\ stats = new_stats
    /\ history = <<>>
    /\ calls = <<>>
    /\ report = <<>>
    /\ exit_code = <<>>

\* the pieces captured output is made of
OutTokens ==
    {"Using cached", "Analysis cached", "\n", "error: boom", "Using ", "cached"}

\* the texts of at most n tokens
RECURSIVE Texts(_)
Texts(n) ==
    IF n = 0 THEN {""}
    ELSE Texts(n - 1) \cup {t \o k : t \in Texts(n - 1), k \in OutTokens}

ReturnCodes == {0, 1, 101}

ProcInputs ==
    {Proc(kind, rc, out, err, "") :
        kind \in {"exited", "timeout"}, rc \in ReturnCodes,
        out \in Texts(MaxOutTokens), err \in Texts(MaxErrTokens)}
    \cup {Proc("error", 0, "", "", e) : e \in {"Permission denied", ""}}

ClsInit == cls_in \in ProcInputs /\ cls_out = <<>>

Classify ==
    /\ cls_out = <<>>
    /\ cls_out' = <<analyze_file(cls_in)>>
    /\ UNCHANGED cls_in
    /\ UNCHANGED <<scanVars, selVars, storeVars, otherVars>>

ClassifyInit == ScanIdle /\ SelIdle /\ ClsInit /\ StoreIdle /\ OtherIdle

ClassifySpec == ClassifyInit /\ [][Classify]_vars

\* the text before the first line break of s
FirstLineOf(s) ==
    LET n == CHOOSE n \in 0..Len(s) :
                 /\ ~Contains(SubSeq(s, 1, n), "\n")
                 /\ n = Len(s) \/ SubSeq(s, n + 1, n + 1) = "\n"
    IN  SubSeq(s, 1, n)

\* C6: analyze_file classifies by the precedence timeout, non-zero exit,
\* cache-hit marker, cache-write marker, default: a timeout is (False, False,
\* "timeout"); otherwise a non-zero exit is a failure whose reason is the
\* first line of the output, or "Unknown error" when there is no output;
\* otherwise "Using cached" in the output makes a cached success, also when
\* "Analysis cached" is there too; otherwise the success is not cached.
C6_ClassificationPrecedence ==
    cls_out # <<>> =>
        LET res == cls_out[1]
            output == cls_in.stdout \o cls_in.stderr
            hit == Contains(output, "Using cached")
        IN  CASE cls_in.kind = "timeout" -> res = <<FALSE, FALSE, "timeout">>
              [] cls_in.kind = "exited" /\ cls_in.returncode # 0 ->
                    /\ ~res[1] /\ ~res[2]
                    /\ res[3] = IF output = "" THEN "Unknown error"
                                ELSE FirstLineOf(output)
              [] cls_in.kind = "exited" /\ cls_in.returncode = 0 /\ hit ->
                    res[1] /\ res[2]
              [] cls_in.kind = "exited" /\ cls_in.returncode = 0 /\ ~hit ->
                    res[1] /\ ~res[2]
              [] OTHER -> ~res[1] /\ ~res[2]

C6_Witness ==
    /\ cls_out = << <<TRUE, TRUE, "cached">> >>
    /\ Contains(cls_in.stdout \o cls_in.stderr, "Analysis cached")
    /\ ~Contains(cls_in.stdout, "Using cached")
    /\ ~Contains(cls_in.stderr, "Using cached")

-----------------------------------------------------------------------------
(* find_rust_files on its own: every small tree, listing order and         *)
(* pattern list.                                                           *)

SelEntries ==
    {"/w/lib.rs", "/w/a/m.rs", "/w/a-b.rs", "/w/target/x.rs", "/w/notes.txt",
     "/w/ab/.rs"}

PatternUniverse == {"/target/", "/a", ".rs", ""}

\* the lists of at most n patterns
RECURSIVE PatternLists(_)
PatternLists(n) ==
    IF n = 0 THEN {<<>>}
    ELSE PatternLists(n - 1)
            \cup {Append(l, q) : l \in PatternLists(n - 1), q \in PatternUniverse}

Range(seq) == {seq[i] : i \in 1..Len(seq)}

SelInit ==
    /\ sel_walk \in UNION {Orders(S) :
                            S \in {T \in SUBSET SelEntries : Cardinality(T) <= MaxSelFiles}}
    /\ sel_patterns \in {<<>>} \cup {<<l>> : l \in PatternLists(MaxPatterns)}
    /\ sel_out = <<>>

Select ==
    /\ sel_out = <<>>
    /\ sel_out' = <<find_rust_files(sel_walk, sel_patterns)>>
    /\ UNCHANGED <<sel_walk, sel_patterns>>
    /\ UNCHANGED <<scanVars, clsVars, storeVars, otherVars>>

SelectInit == ScanIdle /\ SelInit /\ ClsIdle /\ StoreIdle /\ OtherIdle

SelSpec == SelectInit /\ [][Select]_vars

\* the patterns in force: the given list, or the default one for None
PatternsInForce ==
    IF sel_patterns = <<>> THEN Range(default_exclude_patterns)
    ELSE Range(sel_patterns[1])

\* C8: find_rust_files returns exactly the entries ending in .rs whose path
\* contains no exclude pattern, each once, in strictly ascending path order,
\* whatever the order in which the file system lists the tree; no match
\* gives the empty list.
C8_SelectionExactAndOrdered ==
    sel_out # <<>> =>
        LET out == sel_out[1]
            wanted == {f \in Range(sel_walk) :
                          /\ EndsWith(f, ".rs")
                          /\ \A q \in PatternsInForce : ~Contains(f, q)}
        IN  /\ Range(out) = wanted
            /\ \A i, j \in 1..Len(out) : i < j => PathLess(out[i], out[j])
            /\ \A w \in Orders(Range(sel_walk)) :
                   find_rust_files(w, sel_patterns) = out
            /\ wanted = {} => out = <<>>

C8_Witness ==
    /\ sel_out # <<>>
    /\ Len(sel_out[1]) = 2
    /\ Len(sel_walk) = 3
    /\ sel_walk[1] = sel_out[1][2]
    /\ \E f \in Range(sel_walk) : EndsWith(f, ".rs") /\ f \notin Range(sel_out[1])

-----------------------------------------------------------------------------
(* Repository store: RepoManager and setup_priority_repos.                 *)

DEFAULT_GITHUB_BASE == "/home/jordan/github"

Uppers == "ABCDEFGHIJKLMNOPQRSTUVWXYZ"
Lowers == "abcdefghijklmnopqrstuvwxyz"

\* the lower-case form of an ASCII string
Lower(s) ==
    LET low(c) == IF Contains(Uppers, c)
                  THEN SubSeq(Lowers, IndexOf(Uppers, c), IndexOf(Uppers, c))
                  ELSE c
        RECURSIVE go(_)
        go(n) == IF n = 0 THEN "" ELSE go(n - 1) \o low(SubSeq(s, n, n))
    IN  go(Len(s))

\* SQLite: value LIKE 'prefix%'; LIKE ignores the case of ASCII letters
LikePrefix(value, prefix) == StartsWith(Lower(value), Lower(prefix))

\* os.path.join(a, b) for a relative b
Join(a, b) == IF EndsWith(a, "/") THEN a \o b ELSE a \o "/" \o b

\* the row the INSERT of add_repo writes; the columns it does not name are NULL
NewRow(repo_id, path, name, t) ==
    [id |-> repo_id, path |-> path, name |-> name, status |-> "active",
     created_at |-> t, updated_at |-> t, auto_scan_enabled |-> 0,
     scan_interval_minutes |-> 60, last_scan_check |-> <<>>,
     last_analyzed |-> <<>>]

\* add_repo without its duplicate check: a faulty variant
add_repo_unchecked(rows, path, name, repo_id, t, how) ==
    IF how = "declined" THEN [rows |-> rows, ret |-> FALSE]
    ELSE IF how = "db_error" THEN [rows |-> rows, ret |-> FALSE]
    ELSE [rows |-> rows \cup {NewRow(repo_id, path, name, t)}, ret |-> TRUE]

\* add_repo on the table rows. how is what the environment does: "declined"
\* (the path does not exist and the user does not answer y), "db_error" (the
\* INSERT raises) or "ok".
add_repo(rows, path, name, repo_id, t, how) ==
    IF how = "declined" THEN [rows |-> rows, ret |-> FALSE]
    ELSE IF Cardinality({r \in rows : r.path = path}) > 0
         THEN [rows |-> rows, ret |-> FALSE]
    ELSE IF how = "db_error" THEN [rows |-> rows, ret |-> FALSE]
    ELSE [rows |-> rows \cup {NewRow(repo_id, path, name, t)}, ret |-> TRUE]

\* enable_scan that does not look at rowcount: a faulty variant
enable_scan_silent(rows, name, interval, t, db_ok) ==
    IF ~db_ok THEN [rows |-> rows, ret |-> FALSE]
    ELSE [rows |-> {IF r.name = name
                    THEN [r EXCEPT !.auto_scan_enabled = 1,
                                   !.scan_interval_minutes = interval,
                                   !.updated_at = t]
                    ELSE r : r \in rows},
          ret |-> TRUE]

\* enable_scan on the table rows; db_ok is false when the UPDATE raises
enable_scan(rows, name, interval, t, db_ok) ==
    IF ~db_ok THEN [rows |-> rows, ret |-> FALSE]
    ELSE [rows |-> {IF r.name = name
                    THEN [r EXCEPT !.auto_scan_enabled = 1,
                                   !.scan_interval_minutes = interval,
                                   !.updated_at = t]
                    ELSE r : r \in rows},
          ret |-> Cardinality({r \in rows : r.name = name}) > 0]

\* disable_scan that also puts the interval back to its default: a faulty
\* variant
disable_scan_resets_interval(rows, name, t, db_ok) ==
    IF ~db_ok THEN [rows |-> rows, ret |-> FALSE]
    ELSE [rows |-> {IF r.name = name
                    THEN [r EXCEPT !.auto_scan_enabled = 0,
                                   !.scan_interval_minutes = 60,
                                   !.updated_at = t]
                    ELSE r : r \in rows},
          ret |-> Cardinality({r \in rows : r.name = name}) > 0]

\* disable_scan on the table rows
disable_scan(rows, name, t, db_ok) ==
    IF ~db_ok THEN [rows |-> rows, ret |-> FALSE]
    ELSE [rows |-> {IF r.name = name
                    THEN [r EXCEPT !.auto_scan_enabled = 0, !.updated_at = t]
                    ELSE r : r \in rows},
          ret |-> Cardinality({r \in rows : r.name = name}) > 0]

\* cleanup_invalid_repos on the table rows
cleanup_invalid_repos(rows, db_ok) ==
    IF ~db_ok THEN [rows |-> rows, ret |-> 0]
    ELSE [rows |-> {r \in rows : ~LikePrefix(r.path, "http")},
          ret |-> Cardinality({r \in rows : LikePrefix(r.path, "http")})]

\* the loop of bulk_add_from_directory over what os.listdir returned;
\* st is [rows, uuids, added]
RECURSIVE bulk_loop(_, _, _, _, _)
bulk_loop(st, base_path, listing, hows, t) ==
    IF listing = <<>> THEN st
    ELSE LET item == Head(listing)
             r == add_repo(st.rows, Join(base_path, item.name), item.name,
                           st.uuids + 1, t, Head(hows))
             n == IF r.ret THEN 1 ELSE 0
             nxt == IF item.isdir
                    THEN [rows |-> r.rows, uuids |-> st.uuids + n,
                          added |-> st.added + n]
                    ELSE st
         IN  bulk_loop(nxt, base_path, Tail(listing), Tail(hows), t)

\* setup_priority_repos: the recommended repositories, in dict order
priority_repos ==
    << [name |-> "rustscape", path |-> "/home/jordan/github/rustscape", interval |-> 30],
       [name |-> "actions", path |-> "/home/jordan/github/actions", interval |-> 60],
       [name |-> "scripts", path |-> "/home/jordan/github/scripts", interval |-> 60],
       [name |-> "servers_sullivan", path |-> "/home/jordan/github/servers_sullivan",
        interval |-> 120],
       [name |-> "servers_freddy", path |-> "/home/jordan/github/servers_freddy",
        interval |-> 120],
       [name |-> "fks", path |-> "/home/jordan/github/fks", interval |-> 30],
       [name |-> "rustassistant", path |-> "/home/jordan/github/rustassistant",
        interval |-> 15] >>

\* the loop of setup_priority_repos: add_repo, then enable_scan; st is
\* [rows, uuids]
RECURSIVE priority_loop(_, _, _, _)
priority_loop(st, entries, hows, t) ==
    IF entries = <<>> THEN st
    ELSE LET e == Head(entries)
             a == add_repo(st.rows, e.path, e.name, st.uuids + 1, t, Head(hows))
             s == enable_scan(a.rows, e.name, e.interval, t, TRUE)
         IN  priority_loop([rows |-> s.rows,
                            uuids |-> st.uuids + (IF a.ret THEN 1 ELSE 0)],
                           Tail(entries), Tail(hows), t)

\* rows that were in the table before the manager was started
SeededRows ==
    { [id |-> 1, path |-> "https://github.com/acme/tool", name |-> "tool",
       status |-> "active", created_at |-> 0, updated_at |-> 0,
       auto_scan_enabled |-> 0, scan_interval_minutes |-> 60,
       last_scan_check |-> <<>>, last_analyzed |-> <<>>],
      [id |-> 2, path |-> "/home/jordan/github/fks", name |-> "fks",
       status |-> "archived", created_at |-> 0, updated_at |-> 0,
       auto_scan_enabled |-> 1, scan_interval_minutes |-> 30,
       last_scan_check |-> <<0>>, last_analyzed |-> <<0>>] }

AddPaths ==
    {"/home/jordan/github/fks", "/home/jordan/github/rustscape",
     "https://github.com/acme/tool"}
AddNames == {"fks", "rustscape"}
ScanNames == {"fks", "rustscape", "ghost"}
Intervals == {30, 60}
DirItems ==
    { [name |-> "fks", isdir |-> TRUE], [name |-> "rustscape", isdir |-> TRUE],
      [name |-> "notes.txt", isdir |-> FALSE] }

StoreInit ==
    /\ repositories \in {{}, SeededRows}
    /\ now = 0
    /\ uuids = Cardinality(repositories)
    /\ op = [name |-> "none"]
    /\ ret = <<>>
    /\ ops = 0

\* manager.add_repo(path, name)
AddRepo ==
    /\ ops < MaxOps
    /\ \E path \in AddPaths, name \in AddNames, how \in {"ok", "declined", "db_error"} :
        LET r == add_repo(repositories, path, name, uuids + 1, now, how)
        IN  /\ repositories' = r.rows
            /\ uuids' = uuids + (IF r.ret THEN 1 ELSE 0)
            /\ ret' = <<r.ret>>
            /\ op' = [name |-> "add", path |-> path, repo |-> name, how |-> how]
    /\ ops' = ops + 1
    /\ UNCHANGED now
    /\ UNCHANGED <<scanVars, selVars, clsVars, otherVars>>

\* manager.enable_scan(name, interval)
EnableScan ==
    /\ ops < MaxOps
    /\ \E name \in ScanNames, interval \in Intervals, db_ok \in BOOLEAN :
        LET r == enable_scan(repositories, name, interval, now, db_ok)
        IN  /\ repositories' = r.rows
            /\ ret' = <<r.ret>>
            /\ op' = [name |-> "enable", repo |-> name, interval |-> interval,
                      db_ok |-> db_ok]
    /\ ops' = ops + 1
    /\ UNCHANGED <<now, uuids>>
    /\ UNCHANGED <<scanVars, selVars, clsVars, otherVars>>

\* manager.disable_scan(name)
DisableScan ==
    /\ ops < MaxOps
    /\ \E name \in ScanNames, db_ok \in BOOLEAN :
        LET r == disable_scan(repositories, name, now, db_ok)
        IN  /\ repositories' = r.rows
            /\ ret' = <<r.ret>>
            /\ op' = [name |-> "disable", repo |-> name, db_ok |-> db_ok]
    /\ ops' = ops + 1
    /\ UNCHANGED <<now, uuids>>
    /\ UNCHANGED <<scanVars, selVars, clsVars, otherVars>>

\* manager.cleanup_invalid_repos()
CleanupInvalidRepos ==
    /\ ops < MaxOps
    /\ \E db_ok \in BOOLEAN :
        LET r == cleanup_invalid_repos(repositories, db_ok)
        IN  /\ repositories' = r.rows
            /\ ret' = <<r.ret>>
            /\ op' = [name |-> "cleanup", db_ok |-> db_ok]
    /\ ops' = ops + 1
    /\ UNCHANGED <<now, uuids>>
    /\ UNCHANGED <<scanVars, selVars, clsVars, otherVars>>

\* manager.bulk_add_from_directory(base_path); the directories it finds
\* exist, so add_repo asks nothing
BulkAddFromDirectory ==
    /\ ops < MaxOps
    /\ \E exists \in BOOLEAN :
        IF ~exists
        THEN /\ ret' = <<0>>
             /\ op' = [name |-> "bulk"]
             /\ UNCHANGED <<repositories, uuids>>
        ELSE \E items \in {S \in SUBSET DirItems : Cardinality(S) <= MaxListing} :
             \E listing \in Orders(items) :
               LET hows == [i \in 1..Len(listing) |-> "ok"]
                   st == bulk_loop([rows |-> repositories, uuids |-> uuids, added |-> 0],
                                   DEFAULT_GITHUB_BASE, listing, hows, now)
               IN  /\ repositories' = st.rows
                   /\ uuids' = st.uuids
                   /\ ret' = <<st.added>>
                   /\ op' = [name |-> "bulk"]
    /\ ops' = ops + 1
    /\ UNCHANGED now
    /\ UNCHANGED <<scanVars, selVars, clsVars, otherVars>>

\* setup_priority_repos(manager); where a path does not exist the user
\* answers y or not
SetupPriorityRepos ==
    /\ ops < MaxOps
    /\ LET entries == SubSeq(priority_repos, 1, Min(MaxPriority, Len(priority_repos)))
       IN  \E hows \in [1..Len(entries) -> {"ok", "declined"}] :
             LET st == priority_loop([rows |-> repositories, uuids |-> uuids],
                                     entries, hows, now)
             IN  /\ repositories' = st.rows
                 /\ uuids' = st.uuids
                 /\ op' = [name |-> "priority"]
    /\ ret' = <<>>
    /\ ops' = ops + 1
    /\ UNCHANGED now
    /\ UNCHANGED <<scanVars, selVars, clsVars, otherVars>>

\* time passes between two operations
Tick ==
    /\ now < MaxClock
    /\ now' = now + 1
    /\ UNCHANGED <<repositories, uuids, op, ret, ops>>
    /\ UNCHANGED <<scanVars, selVars, clsVars, otherVars>>

StoreNext ==
    \/ AddRepo
    \/ EnableScan
    \/ DisableScan
    \/ CleanupInvalidRepos
    \/ BulkAddFromDirectory
    \/ SetupPriorityRepos
    \/ Tick

ManagerInit == ScanIdle /\ SelIdle /\ ClsIdle /\ StoreInit /\ OtherIdle

StoreSpec == ManagerInit /\ [][StoreNext]_vars

\* no two rows of the table have the same path
C10_PathsUnique ==
    \A r1, r2 \in repositories : r1.path = r2.path => r1 = r2

\* a step that is an add of a path the table holds returns False and leaves
\* the table as it was
C10_DuplicateAddRejected ==
    (/\ op'.name = "add"
     /\ ops' = ops + 1
     /\ \E r \in repositories : r.path = op'.path)
        => (ret' = <<FALSE>> /\ repositories' = repositories)

\* C10: no two rows of the table have the same path, whatever operations run
\* on a table that started that way; and an add of a path the table holds
\* returns False and changes nothing.
C10_PathUniquenessKept ==
    /\ []C10_PathsUnique
    /\ [][C10_DuplicateAddRejected]_vars

C10_Witness ==
    /\ op.name = "add" /\ op.how = "ok" /\ ret = <<FALSE>>
    /\ Cardinality({r \in repositories : r.path = op.path}) = 1
    /\ Cardinality(repositories) = 3

\* what the last operation, called on a table that looked like
\* repositories does now, ended as: only the store's failures change nothing,
\* so the table after a failure is the table the operation saw
OutcomeOfLast ==
    IF op.name = "add"
    THEN IF ret = <<TRUE>> THEN "added"
         ELSE IF op.how = "declined" THEN "declined"
         ELSE IF \E r \in repositories : r.path = op.path THEN "already_exists"
         ELSE "store_error"
    ELSE IF op.name \in {"enable", "disable"}
    THEN IF ret = <<TRUE>> THEN "updated"
         ELSE IF ~op.db_ok THEN "store_error"
         ELSE "not_found"
    ELSE "other"

\* C11: the value an add returns when it is rejected because the path is in
\* the table differs from the value returned by every other failing outcome
\* of add, enable and disable: two consecutive calls, one ending as "already
\* exists" and the other as another failure, never return the same value.
C11_AlreadyExistsIsDistinct ==
    [][(/\ ops' = ops + 1
        /\ OutcomeOfLast = "already_exists"
        /\ OutcomeOfLast' \in {"declined", "store_error", "not_found"})
            => ret' # ret]_vars

\* a step that is an enable or a disable of a name no row has returns False
\* and leaves the table as it was
NotFoundReported ==
    (/\ ops' = ops + 1
     /\ op'.name \in {"enable", "disable"}
     /\ ~\E r \in repositories : r.name = op'.repo)
        => (ret' = <<FALSE>> /\ repositories' = repositories)

\* C12: enable_scan or disable_scan called with a name that no row has
\* returns False, the not-found result, never True, and changes no field of
\* any row.
C12_NotFoundReportedNothingChanged == [][NotFoundReported]_vars

C12_Witness ==
    /\ op.name = "enable" /\ op.repo = "ghost" /\ op.db_ok
    /\ ret = <<FALSE>>
    /\ repositories = SeededRows

\* the fields neither enable_scan nor disable_scan may touch
SameOutsideScanFields(r, s) ==
    /\ s.id = r.id /\ s.path = r.path /\ s.name = r.name
    /\ s.status = r.status /\ s.created_at = r.created_at
    /\ s.last_scan_check = r.last_scan_check
    /\ s.last_analyzed = r.last_analyzed

\* what a step that is an enable_scan or a disable_scan does to the table
ScanFlagFrame ==
    (ops' = ops + 1 /\ op'.name \in {"enable", "disable"}) =>
        /\ Cardinality(repositories') = Cardinality(repositories)
        /\ \A r \in repositories :
              \E s \in repositories' :
                  /\ SameOutsideScanFields(r, s)
                  /\ r.name # op'.repo => s = r
                  /\ op'.name = "disable" =>
                         s.scan_interval_minutes = r.scan_interval_minutes
                  /\ (r.name = op'.repo /\ ret' = <<TRUE>>) =>
                         /\ s.updated_at = now
                         /\ op'.name = "enable" =>
                                /\ s.auto_scan_enabled = 1
                                /\ s.scan_interval_minutes = op'.interval
                         /\ op'.name = "disable" => s.auto_scan_enabled = 0

\* C20: enable_scan(name, interval) changes, on the rows named name, only
\* auto_scan_enabled (to 1), scan_interval_minutes (to interval) and
\* updated_at; disable_scan(name) changes only auto_scan_enabled (to 0) and
\* updated_at and keeps scan_interval_minutes; both leave every other field
\* of those rows and every row of another name as they were, and neither
\* adds nor removes a row.
C20_ScanFlagFrame == [][ScanFlagFrame]_vars

C20_Witness ==
    /\ op.name = "disable" /\ op.repo = "fks" /\ ret = <<TRUE>>
    /\ now = 1
    /\ \E r \in repositories :
          /\ r.name = "fks" /\ r.auto_scan_enabled = 0 /\ r.updated_at = 1
          /\ r.scan_interval_minutes = 30 /\ r.last_scan_check = <<0>>
    /\ \E r \in repositories : r.name = "tool" /\ r.updated_at = 0

-----------------------------------------------------------------------------
(* Eligibility scheduler: dueForScan and its caller, on the rows of table  *)
(* repositories. The scripts hold the columns it reads and writes          *)
(* (auto_scan_enabled, scan_interval_minutes, last_scan_check) but not     *)
(* the scheduler, which is modelled from section 4.5 of the specification. *)

\* one record against the clock
is_due(r, t) ==
    IF r.auto_scan_enabled = 0 THEN FALSE
    ELSE IF r.last_scan_check = <<>> THEN TRUE
    ELSE t - r.last_scan_check[1] >= r.scan_interval_minutes * 60

\* one record against the clock, with the boundary excluded: a faulty variant
RECURSIVE dueForScan_strict(_, _)
dueForScan_strict(records, t) ==
    IF records = <<>> THEN <<>>
    ELSE LET r == Head(records)
             due == /\ r.auto_scan_enabled # 0
                    /\ \/ r.last_scan_check = <<>>
                       \/ t - r.last_scan_check[1] >
                              r.scan_interval_minutes * 60
         IN  (IF due THEN <<r>> ELSE <<>>) \o dueForScan_strict(Tail(records), t)

\* dueForScan(records, now): the due records, in the order given
RECURSIVE dueForScan(_, _)
dueForScan(records, t) ==
    IF records = <<>> THEN <<>>
    ELSE (IF is_due(Head(records), t) THEN <<Head(records)>> ELSE <<>>)
             \o dueForScan(Tail(records), t)

\* the caller's step for one due record that advances last_scan_check
\* whether or not the dispatch succeeded: a faulty variant
mark_dispatched_always(rows, repo_id, t, ok) ==
    {IF r.id = repo_id THEN [r EXCEPT !.last_scan_check = <<t>>] ELSE r : r \in rows}

\* the caller's step for one due record: the scan is dispatched, and
\* last_scan_check becomes t in the same transaction when the dispatch
\* succeeded
mark_dispatched(rows, repo_id, t, ok) ==
    IF ok
    THEN {IF r.id = repo_id THEN [r EXCEPT !.last_scan_check = <<t>>] ELSE r : r \in rows}
    ELSE rows

\* the rows as the sequence handed to dueForScan: ordered by id
RECURSIVE RowsById(_)
RowsById(rows) ==
    IF rows = {} THEN <<>>
    ELSE LET r == CHOOSE x \in rows : \A y \in rows : x.id <= y.id
         IN  <<r>> \o RowsById(rows \ {r})

\* the tables the scheduler is started on
SchedRows ==
    { [id |-> 1, path |-> "/home/jordan/github/actions", name |-> "actions",
       status |-> "active", created_at |-> 0, updated_at |-> 0,
       auto_scan_enabled |-> 1, scan_interval_minutes |-> 1,
       last_scan_check |-> <<>>, last_analyzed |-> <<>>],
      [id |-> 2, path |-> "/home/jordan/github/fks", name |-> "fks",
       status |-> "active", created_at |-> 0, updated_at |-> 0,
       auto_scan_enabled |-> 1, scan_interval_minutes |-> 1,
       last_scan_check |-> <<0>>, last_analyzed |-> <<0>>],
      [id |-> 3, path |-> "/home/jordan/github/scripts", name |-> "scripts",
       status |-> "active", created_at |-> 0, updated_at |-> 0,
       auto_scan_enabled |-> 0, scan_interval_minutes |-> 1,
       last_scan_check |-> <<0>>, last_analyzed |-> <<>>] }

\* the clock advances by one second or by one second less than a minute
TickSteps == {1, 59}

SchedInit ==
    /\ repositories \in {S \in SUBSET SchedRows : S # {}}
    /\ now = 0
    /\ uuids = 0
    /\ op = [name |-> "none"]
    /\ ret = <<>>
    /\ ops = 0
    /\ sched = [phase |-> "ready", at |-> 0, due |-> <<>>, todo |-> {},
                owed |-> {}, failed |-> {}, ticks |-> 0, last |-> <<>>]

\* the scheduler evaluates: due = dueForScan(records, now)
Evaluate ==
    /\ sched.phase \in {"ready", "evaluated"}
    /\ LET due == dueForScan(RowsById(repositories), now)
           ids == {due[i].id : i \in 1..Len(due)}
       IN  sched' = [sched EXCEPT !.phase = "evaluated", !.at = now,
                                  !.due = due, !.todo = ids,
                                  !.owed = ids, !.last = <<>>]
    /\ UNCHANGED <<repositories, now, uuids, op, ret, ops>>
    /\ UNCHANGED <<scanVars, selVars, clsVars, conns, children>>

\* the caller dispatches a scan for one record of the last evaluation
DispatchScan ==
    /\ sched.phase = "evaluated"
    /\ \E repo_id \in sched.todo, ok \in BOOLEAN :
        /\ repositories' = mark_dispatched(repositories, repo_id, sched.at, ok)
        /\ sched' = [sched EXCEPT !.todo = @ \ {repo_id},
                                  !.owed = IF ok THEN @ \ {repo_id} ELSE @,
                                  !.failed = IF ok THEN @ \ {repo_id}
                                             ELSE @ \cup {repo_id},
                                  !.last = <<[id |-> repo_id, ok |-> ok]>>]
    /\ UNCHANGED <<now, uuids, op, ret, ops>>
    /\ UNCHANGED <<scanVars, selVars, clsVars, conns, children>>

\* time passes
SchedTick ==
    /\ sched.phase \in {"ready", "evaluated"}
    /\ sched.ticks < MaxTicks
    /\ \E d \in TickSteps : now' = now + d
    /\ sched' = [sched EXCEPT !.ticks = @ + 1, !.last = <<>>]
    /\ UNCHANGED <<repositories, uuids, op, ret, ops>>
    /\ UNCHANGED <<scanVars, selVars, clsVars, conns, children>>

SchedNext == Evaluate \/ DispatchScan \/ SchedTick

SchedulerInit ==
    ScanIdle /\ SelIdle /\ ClsIdle /\ SchedInit /\ ConnsIdle /\ ChildrenIdle

SchedSpec == SchedulerInit /\ [][SchedNext]_vars

\* the ids of a sequence of records
IdsOf(records) == {records[i].id : i \in 1..Len(records)}

\* the state right after an evaluation
JustEvaluated ==
    sched.phase = "evaluated" /\ sched.last = <<>> /\ sched.at = now

\* the result of an evaluation is exactly the due rows, each once
DueExact ==
    JustEvaluated =>
        LET due == {sched.due[i] : i \in 1..Len(sched.due)}
            elapsed(r) == now - r.last_scan_check[1]
            period(r) == r.scan_interval_minutes * 60
        IN  /\ \A i, j \in 1..Len(sched.due) : sched.due[i] = sched.due[j] => i = j
            /\ due = {r \in repositories :
                         /\ r.auto_scan_enabled = 1
                         /\ \/ r.last_scan_check = <<>>
                            \/ elapsed(r) >= period(r)}
            /\ \A r \in repositories :
                   r.auto_scan_enabled = 0 => r \notin due
            /\ \A r \in repositories :
                   (r.auto_scan_enabled = 1 /\ r.last_scan_check # <<>>) =>
                       /\ elapsed(r) = period(r) => r \in due
                       /\ elapsed(r) = period(r) - 1 => r \notin due

\* a step that is an evaluation changes no row
EvaluateMutatesNothing ==
    (JustEvaluated' /\ sched' # sched) => repositories' = repositories

\* C13: dueForScan(records, now) returns exactly the records with
\* auto_scan_enabled true and (last_scan_check unset or now - last_scan_check
\* >= interval_minutes * 60): a record with auto_scan_enabled false is never
\* returned, a record whose interval has elapsed to the second is due, one
\* second earlier it is not, and the evaluation changes no record.
C13_DueForScanExactAndPure ==
    /\ []DueExact
    /\ [][EvaluateMutatesNothing]_vars

C13_Witness ==
    /\ JustEvaluated
    /\ now = 60
    /\ IdsOf(sched.due) = {2}
    /\ \E r \in repositories : r.id = 1 /\ r.last_scan_check = <<1>>
    /\ \E r \in repositories : r.id = 3 /\ r.last_scan_check = <<0>>

\* a step changes last_scan_check of a row only by dispatching a scan for
\* that row with success, and then to the time of the evaluation; a failed
\* dispatch changes no row
LastCheckFollowsDispatch ==
    /\ \A r \in repositories : \A s \in repositories' :
           (s.id = r.id /\ s.last_scan_check # r.last_scan_check) =>
               /\ sched'.last = <<[id |-> r.id, ok |-> TRUE]>>
               /\ sched'.todo # sched.todo
               /\ s.last_scan_check = <<sched.at>>
    /\ (sched'.todo # sched.todo /\ sched'.last # <<>> /\ ~sched'.last[1].ok) =>
           repositories' = repositories
    /\ (sched'.todo # sched.todo /\ sched'.last # <<>> /\ sched'.last[1].ok) =>
           \E s \in repositories' :
               s.id = sched'.last[1].id /\ s.last_scan_check = <<sched.at>>

\* a record that was due and has had no successful dispatch since is due
\* again at the next evaluation
OwedStaysDue ==
    (JustEvaluated' /\ sched' # sched) => sched.owed \subseteq IdsOf(sched'.due)

\* C14: last_scan_check of a record advances, to the time of the evaluation,
\* only in the step that dispatches a scan for that record with success; a
\* failed dispatch leaves it as it was, and a record that was due stays due
\* at every later evaluation until a dispatch for it succeeds.
C14_LastCheckAdvancesWithDispatch ==
    /\ [][LastCheckFollowsDispatch]_vars
    /\ [][OwedStaysDue]_vars

C14_Witness ==
    /\ JustEvaluated
    /\ now = 60
    /\ sched.failed = {1}
    /\ IdsOf(sched.due) = {1}
    /\ \E r \in repositories : r.id = 1 /\ r.last_scan_check = <<>>
    /\ \E r \in repositories : r.id = 2 /\ r.last_scan_check = <<60>>

-----------------------------------------------------------------------------
(* Two RepoManager objects, each with its own sqlite3 connection to the    *)
(* same database file, each running add_repo once. A connection's          *)
(* statements are the steps: the SELECT of line 101 reads what has been    *)
(* committed; the INSERT of line 112 and the commit of line 120 write one  *)
(* row or raise.                                                           *)

Connections == {1, 2}

\* the paths and names the two callers pass
ConcPaths == {"/home/jordan/github/fks", "/home/jordan/github/rustscape"}

ConcInit ==
    /\ repositories \in {{}, SeededRows}
    /\ now = 0
    /\ uuids = Cardinality(repositories)
    /\ op = [name |-> "none"]
    /\ ret = <<>>
    /\ ops = 0
    /\ conns = [c \in Connections |->
                   [pc |-> "idle", path |-> "", name |-> "", cnt |-> <<>>, ret |-> <<>>]]

\* lines 92-98: add_repo is called; a path that does not exist is added only
\* if the user answers y
AddBegin(c) ==
    /\ conns[c].pc = "idle"
    /\ \E path \in ConcPaths, declined \in BOOLEAN :
        conns' = [conns EXCEPT ![c] =
                     IF declined
                     THEN [@ EXCEPT !.pc = "done", !.path = path, !.name = "repo",
                                    !.ret = <<FALSE>>]
                     ELSE [@ EXCEPT !.pc = "check", !.path = path, !.name = "repo"]]
    /\ UNCHANGED <<repositories, now, uuids, op, ret, ops>>
    /\ UNCHANGED <<scanVars, selVars, clsVars, sched, children>>

\* lines 100-106: the duplicate check
AddCheck(c) ==
    /\ conns[c].pc = "check"
    /\ LET cnt == Cardinality({r \in repositories : r.path = conns[c].path})
       IN  conns' = [conns EXCEPT ![c] =
                        IF cnt > 0
                        THEN [@ EXCEPT !.pc = "done", !.cnt = <<cnt>>, !.ret = <<FALSE>>]
                        ELSE [@ EXCEPT !.pc = "insert", !.cnt = <<cnt>>]]
    /\ UNCHANGED <<repositories, now, uuids, op, ret, ops>>
    /\ UNCHANGED <<scanVars, selVars, clsVars, sched, children>>

\* lines 108-125: INSERT and commit, or an exception from either
AddInsert(c) ==
    /\ conns[c].pc = "insert"
    /\ \E raised \in BOOLEAN :
        IF raised
        THEN /\ conns' = [conns EXCEPT ![c] = [@ EXCEPT !.pc = "done", !.ret = <<FALSE>>]]
             /\ UNCHANGED <<repositories, uuids>>
        ELSE /\ repositories' = repositories \cup
                    {NewRow(uuids + 1, conns[c].path, conns[c].name, now)}
             /\ uuids' = uuids + 1
             /\ conns' = [conns EXCEPT ![c] = [@ EXCEPT !.pc = "done", !.ret = <<TRUE>>]]
    /\ UNCHANGED <<now, op, ret, ops>>
    /\ UNCHANGED <<scanVars, selVars, clsVars, sched, children>>

ConcNext == \E c \in Connections : AddBegin(c) \/ AddCheck(c) \/ AddInsert(c)

ConcurrentInit == ScanIdle /\ SelIdle /\ ClsIdle /\ ConcInit /\ SchedIdle /\ ChildrenIdle

ConcSpec == ConcurrentInit /\ [][ConcNext]_vars

\* C15: when two managers add the same path concurrently, the duplicate
\* check and the insert of one add are not interleaved with those of the
\* other (never have both passed the check with neither insert done), at
\* most one row for that path is inserted, and at most one of the two adds
\* returns True.
C15_AddIsAtomic ==
    \A c, d \in Connections :
        (c # d /\ conns[c].pc # "idle" /\ conns[d].pc # "idle"
              /\ conns[c].path = conns[d].path) =>
            /\ ~(conns[c].pc = "insert" /\ conns[d].pc = "insert")
            /\ ~(conns[c].ret = <<TRUE>> /\ conns[d].ret = <<TRUE>>)
            /\ ~(conns[c].cnt = <<0>> /\ conns[d].cnt = <<0>>
                    /\ Cardinality({r \in repositories : r.path = conns[c].path}) > 1)

-----------------------------------------------------------------------------
(* Phases of a scan run.                                                   *)

\* the positions of the commands cmds in calls
IndexesOf(cmds) == {i \in 1..Len(calls) : calls[i].cmd \in cmds}

\* main() has evaluated cache_dir.exists()
CacheChecked == env.cache_dir # <<>>

\* C17: `cache init` is run in a run if and only if .rustassistant does not
\* exist when main() looks, at most once, before the files are discovered
\* and before any analyze invocation; a run that finds the directory runs no
\* `cache init`.
C17_CacheInitOnlyWhenAbsent ==
    /\ ~CacheChecked => calls = <<>>
    /\ CacheChecked =>
           (IndexesOf({"cache init"}) # {} <=> env.cache_dir = <<FALSE>>)
    /\ IndexesOf({"cache init"}) \subseteq {1}
    /\ IndexesOf({"cache init"}) # {} =>
           (pc = "discover" => found = <<>> /\ Len(calls) = 1)
    /\ env.cache_dir = <<TRUE>> => env.cache_init = <<>>

C17_Witness ==
    /\ pc = "done"
    /\ env.cache_dir = <<FALSE>>
    /\ Len(calls) >= 3
    /\ calls[1].cmd = "cache init" /\ calls[2].cmd = "analyze"

\* C18: when rust_files is empty after the limit has been applied, main()
\* returns from the discovery with status 0: no analyze, no `cache status`
\* and no git command is run, --commit or not.
C18_EmptyRunEndsAtDiscover ==
    (Discovered /\ total = 0) =>
        /\ pc = "done"
        /\ exit_code = <<0>>
        /\ IndexesOf({"analyze", "cache status"} \cup GitCommands) = {}
        /\ report = <<>>
        /\ idx = 0 /\ stats = new_stats

C18_Witness ==
    /\ Discovered /\ total = 0
    /\ args.commit
    /\ found # <<>>
    /\ pc = "done"

\* the order of the phases, as the calls made so far show it
PhasesInOrder ==
    /\ IndexesOf({"cache status"}) # {} =>
           /\ idx = total /\ Len(history) = total
           /\ Cardinality(IndexesOf({"cache status"})) = 1
           /\ \A i \in IndexesOf({"analyze"}), j \in IndexesOf({"cache status"}) : i < j
    /\ report # <<>> =>
           /\ idx = total
           /\ IndexesOf({"cache status"}) # {}
           /\ report[1].success = stats.success
           /\ report[1].cached = stats.cached
           /\ report[1].failed = stats.failed
    /\ IndexesOf(GitCommands) # {} =>
           /\ report # <<>>
           /\ \A i \in IndexesOf({"cache status"}), j \in IndexesOf(GitCommands) : i < j
    /\ env.commit_msg # <<>> =>
           env.commit_msg[1] = [total |-> total, success |-> stats.success,
                                failed |-> stats.failed]
    /\ (exit_code # <<>> /\ total > 0) => exit_code = <<ExitStatus(stats)>>
    /\ (pc = "done" /\ total > 0) => report # <<>>

\* no counter changes once the report has begun
StatsFinalAfterLoop ==
    (IndexesOf({"cache status"}) # {} \/ report # <<>>) =>
        (stats' = stats /\ idx' = idx /\ history' = history)

\* C19: `cache status` and the statistics come only after the outcome of
\* the last selected file has been accumulated, git add and git commit only
\* after the report, and the counters the commit decision, the commit
\* message and the exit status use are the final ones: no counter changes
\* after the report has begun.
C19_PhasesInOrder ==
    /\ []PhasesInOrder
    /\ [][StatsFinalAfterLoop]_vars

C19_Witness ==
    /\ pc = "done"
    /\ total = 2
    /\ stats.failed = 1 /\ stats.success = 1
    /\ Len(calls) = 7
    /\ calls[7].cmd = "git commit"
    /\ exit_code = <<1>>

-----------------------------------------------------------------------------
(* The dispatch loop (lines 217-233) with subprocess.run of line 91 taken  *)
(* apart: run starts the child, waits for it up to timeout seconds, and on *)
(* expiry kills it and waits for it before TimeoutExpired is raised.       *)

\* the child of an invocation whose timeout expired is left alone: a faulty
\* variant
on_timeout_abandon(child) == child

\* subprocess.run on expiry of its timeout: process.kill()
on_timeout(child) == [child EXCEPT !.state = "killed"]

\* process.wait() on a child that has ended
reap(child) ==
    IF child.state \in {"exited", "killed"} THEN [child EXCEPT !.state = "reaped"]
    ELSE child

\* the selectable files of the tree RepoEntries, as find_rust_files lists them
LoopFiles ==
    find_rust_files(CHOOSE w \in Orders(RepoEntries) : TRUE, <<main_exclude_patterns>>)

LoopInit ==
    /\ pc = "spawn"
    /\ args = [limit |-> <<>>, commit |-> FALSE]
    /\ fs = RepoEntries
    /\ env = new_env
    /\ found = LoopFiles
    /\ rust_files \in {Slice(LoopFiles, n) : n \in 1..MaxFiles}
    /\ total = Len(rust_files)
    /\ idx = 0
    /\ stats = new_stats
    /\ history = <<>>
    /\ calls = <<>>
    /\ report = <<>>
    /\ exit_code = <<>>
    /\ children = <<>>

\* the bookkeeping of lines 222-233 for the invocation that has just returned
\* or raised
LoopStep(r) ==
    LET file_path == rust_files[idx + 1]
        res == analyze_file(r)
    IN  /\ history' = Append(history, [kind |-> r.kind, res |-> res])
        /\ stats' = Accumulate(stats, file_path, res)
        /\ idx' = idx + 1
        /\ pc' = IF idx + 1 = total THEN "loop_done" ELSE "spawn"

\* analyze_file is called for the next file and subprocess.run starts the
\* analyzer
Spawn ==
    /\ pc = "spawn"
    /\ idx < total
    /\ calls' = Append(calls, Call("analyze", RelativeTo(rust_files[idx + 1], repo_path)))
    /\ children' = Append(children, [file |-> rust_files[idx + 1], state |-> "running"])
    /\ pc' = "wait"
    /\ UNCHANGED <<args, fs, env, found, rust_files, total, idx, stats, history,
                   report, exit_code>>
    /\ UNCHANGED <<selVars, clsVars, storeVars, conns, sched>>

\* analyze_file is called for the next file and raises before a child
\* exists (the analyzer cannot be executed)
SpawnFails ==
    /\ pc = "spawn"
    /\ idx < total
    /\ \E r \in {x \in DispatchResults : x.kind = "error"} : LoopStep(r)
    /\ calls' = Append(calls, Call("analyze", RelativeTo(rust_files[idx + 1], repo_path)))
    /\ children' = Append(children, [file |-> rust_files[idx + 1], state |-> "none"])
    /\ UNCHANGED <<args, fs, env, found, rust_files, total, report, exit_code>>
    /\ UNCHANGED <<selVars, clsVars, storeVars, conns, sched>>

\* the child ends within the timeout: run collects it and returns
ChildExits ==
    /\ pc = "wait"
    /\ \E r \in {x \in DispatchResults : x.kind = "exited"} : LoopStep(r)
    /\ children' = [children EXCEPT ![idx + 1] = reap([@ EXCEPT !.state = "exited"])]
    /\ UNCHANGED <<args, fs, env, found, rust_files, total, calls, report, exit_code>>
    /\ UNCHANGED <<selVars, clsVars, storeVars, conns, sched>>

\* the timeout expires with the child still running
TimeoutExpires ==
    /\ pc = "wait"
    /\ children' = [children EXCEPT ![idx + 1] = on_timeout(@)]
    /\ pc' = "reap"
    /\ UNCHANGED <<args, fs, env, found, rust_files, total, idx, stats, history,
                   calls, report, exit_code>>
    /\ UNCHANGED <<selVars, clsVars, storeVars, conns, sched>>

\* run waits for the killed child and raises TimeoutExpired, which line 114
\* catches
TimeoutRaised ==
    /\ pc = "reap"
    /\ \E r \in {x \in DispatchResults : x.kind = "timeout"} : LoopStep(r)
    /\ children' = [children EXCEPT ![idx + 1] = reap(@)]
    /\ UNCHANGED <<args, fs, env, found, rust_files, total, calls, report, exit_code>>
    /\ UNCHANGED <<selVars, clsVars, storeVars, conns, sched>>

LoopNext == Spawn \/ SpawnFails \/ ChildExits \/ TimeoutExpires \/ TimeoutRaised

DispatchLoopInit == LoopInit /\ SelIdle /\ ClsIdle /\ StoreIdle /\ ConnsIdle /\ SchedIdle

LoopSpec == DispatchLoopInit /\ [][LoopNext]_vars

\* the invocations whose child is running
Running == {i \in 1..Len(children) : children[i].state = "running"}

\* C16: at most one analyzer child is running at any time, the child of
\* invocation i has ended (by itself or killed on timeout) and been waited
\* for before invocation i+1 is started, and after an invocation has been
\* classified as timeout its child is not running.
C16_DispatchIsSequential ==
    /\ Cardinality(Running) <= 1
    /\ Len(children) \in {idx, idx + 1}
    /\ \A i \in 1..Len(children) :
           i < Len(children) => children[i].state \in {"reaped", "none"}
    /\ \A i \in 1..idx :
           /\ children[i].state \in {"reaped", "none"}
           /\ history[i].kind = "timeout" => children[i].state = "reaped"
    /\ pc = "spawn" => Running = {}

C16_Witness ==
    /\ pc = "wait"
    /\ idx = 2
    /\ history[1].kind = "timeout" /\ children[1].state = "reaped"
    /\ history[2].kind = "exited"
    /\ Running = {3}

-----------------------------------------------------------------------------
(* cleanup_invalid_repos on tables that hold paths of several kinds.       *)

\* rows whose paths are a web URL, a URL of another scheme, an absolute
\* path and a relative path; each can be put there by add_repo, which takes
\* any string once the user has answered y
MixedRows ==
    { [id |-> 1, path |-> "https://github.com/acme/tool", name |-> "tool",
       status |-> "active", created_at |-> 0, updated_at |-> 0,
       auto_scan_enabled |-> 0, scan_interval_minutes |-> 60,
       last_scan_check |-> <<>>, last_analyzed |-> <<>>],
      [id |-> 2, path |-> "ssh://github.com/acme/lib", name |-> "lib",
       status |-> "active", created_at |-> 0, updated_at |-> 0,
       auto_scan_enabled |-> 0, scan_interval_minutes |-> 60,
       last_scan_check |-> <<>>, last_analyzed |-> <<>>],
      [id |-> 3, path |-> "/home/jordan/github/fks", name |-> "fks",
       status |-> "active", created_at |-> 0, updated_at |-> 0,
       auto_scan_enabled |-> 1, scan_interval_minutes |-> 30,
       last_scan_check |-> <<0>>, last_analyzed |-> <<0>>],
      [id |-> 4, path |-> "HTTP://GITHUB.COM/ACME/OLD", name |-> "old",
       status |-> "archived", created_at |-> 0, updated_at |-> 0,
       auto_scan_enabled |-> 0, scan_interval_minutes |-> 60,
       last_scan_check |-> <<>>, last_analyzed |-> <<>>] }

CleanupInit ==
    /\ repositories \in SUBSET MixedRows
    /\ now = 0
    /\ uuids = Cardinality(repositories)
    /\ op = [name |-> "none"]
    /\ ret = <<>>
    /\ ops = 0

CleanupNext == CleanupInvalidRepos \/ EnableScan \/ DisableScan \/ Tick

CleanupStartInit == ScanIdle /\ SelIdle /\ ClsIdle /\ CleanupInit /\ OtherIdle

CleanupSpec == CleanupStartInit /\ [][CleanupNext]_vars

\* a path that names a place in the file system, not a resource by URL
IsFilesystemPath(path) == ~Contains(path, "://")

\* what a step does to the set of rows, by the operation it is
CleanupRemovesExactly ==
    ops' = ops + 1 =>
        IF op'.name = "cleanup"
        THEN op'.db_ok =>
                 /\ repositories' = {r \in repositories : IsFilesystemPath(r.path)}
                 /\ ret' = <<Cardinality(repositories) - Cardinality(repositories')>>
        ELSE \A r \in repositories : \E s \in repositories' : s.id = r.id

\* C21: cleanup removes exactly the rows whose path is not a filesystem path
\* (a URL, for one), returns how many it removed and leaves every row with a
\* filesystem path as it was; no other operation removes a row.
C21_CleanupRemovesExactlyNonPaths == [][CleanupRemovesExactly]_vars

-----------------------------------------------------------------------------
(* One outcome, one variant.                                               *)

\* C22: what analyze_file returns is a success (cached or not) or a failure
\* with its reason, a timeout being the failure "timeout": it is never
\* unsuccessful and cached, whatever the output of a timed-out or failed
\* analyzer holds, and the loop's bookkeeping counts it once, as a cache
\* hit, a new analysis or a failure, and lists it exactly when it failed.
C22_OutcomeIsOneVariant ==
    cls_out # <<>> =>
        LET res == cls_out[1]
            st == Accumulate(new_stats, "/w/lib.rs", res)
        IN  /\ res[1] \in BOOLEAN /\ res[2] \in BOOLEAN
            /\ ~(~res[1] /\ res[2])
            /\ cls_in.kind = "timeout" => res = <<FALSE, FALSE, "timeout">>
            /\ st.cached + st.success + st.failed = 1
            /\ ~(st.cached > 0 /\ st.failed > 0)
            /\ st.cached = 1 <=> (res[1] /\ res[2])
            /\ st.success = 1 <=> (res[1] /\ ~res[2])
            /\ st.failed = 1 <=> ~res[1]
            /\ st.errors = IF res[1] THEN <<>> ELSE << <<"/w/lib.rs", res[3]>> >>

C22_Witness ==
    /\ cls_out # <<>>
    /\ cls_in.kind = "exited" /\ cls_in.returncode = 1
    /\ Contains(cls_in.stdout, "Using cached")
    /\ cls_out[1] = <<FALSE, FALSE, "Using cached">>

-----------------------------------------------------------------------------
(* The summary of runs with many files: main() from the end of its loop.   *)

Digits == "0123456789"

\* the i-th file of a long run; the names sort in the order of i
ReportFile(i) ==
    "/w/f" \o SubSeq(Digits, (i \div 10) + 1, (i \div 10) + 1)
           \o SubSeq(Digits, (i % 10) + 1, (i % 10) + 1) \o ".rs"

\* what the analyzer does with a file of a long run: it succeeds or it fails
ReportResults ==
    { Proc("exited", 0, "ok\n", "", ""),
      Proc("exited", 1, "", "error: boom\ndetail\n", "") }

\* the statistics after the first k iterations of the loop
RECURSIVE StatsAfter(_, _, _)
StatsAfter(files, outs, k) ==
    IF k = 0 THEN new_stats
    ELSE Accumulate(StatsAfter(files, outs, k - 1), files[k], analyze_file(outs[k]))

\* main() at line 235: the loop has gone through all of rust_files
AfterLoopInit ==
    /\ pc = "report"
    /\ args = [limit |-> <<>>, commit |-> FALSE]
    /\ total \in 1..MaxReportFiles
    /\ rust_files = [i \in 1..total |-> ReportFile(i)]
    /\ found = rust_files
    /\ fs = {rust_files[i] : i \in 1..total}
    /\ env = [new_env EXCEPT !.repo = <<TRUE>>, !.binary = <<TRUE>>,
                             !.dotenv = <<TRUE>>, !.cache_dir = <<TRUE>>]
    /\ idx = total
    /\ \E outs \in [1..total -> ReportResults] :
          /\ history = [i \in 1..total |->
                           [kind |-> outs[i].kind, res |-> analyze_file(outs[i])]]
          /\ stats = StatsAfter(rust_files, outs, total)
    /\ calls = [i \in 1..total |-> Call("analyze", RelativeTo(rust_files[i], repo_path))]
    /\ report = <<>>
    /\ exit_code = <<>>

ReportNext == Report \/ Commit \/ Exit

ReportInit == AfterLoopInit /\ SelIdle /\ ClsIdle /\ StoreIdle /\ OtherIdle

ReportSpec == ReportInit /\ [][ReportNext]_vars

\* C23: the summary lists the first min(10, failed) entries of the failure
\* list, which is in dispatch order, and prints the note about further
\* errors if and only if more than 10 files failed, the note giving
\* failed - 10.
C23_ReportCapsFailuresAtTen ==
    report # <<>> =>
        LET r == report[1]
        IN  /\ stats.errors = FailuresOf(idx)
            /\ r.failed = stats.failed /\ r.failed = Len(stats.errors)
            /\ r.shown = SubSeq(stats.errors, 1, Min(10, stats.failed))
            /\ r.more # <<>> <=> stats.failed > 10
            /\ r.more # <<>> => r.more = <<stats.failed - 10>>

C23_Witness ==
    /\ report # <<>>
    /\ stats.failed = 11
    /\ Len(report[1].shown) = 10
    /\ report[1].shown[10] = <<"/w/f10.rs", "error: boom">>
    /\ report[1].more = <<1>>

====
